---- MODULE Spec2Model ----
(***************************************************************************)
(* AUDX audio visualiser backend (src-tauri/src/lib.rs).                   *)
(*                                                                         *)
(* The capture callback process_fn appends each chunk of samples to a      *)
(* mutex-guarded sample buffer, drains it FFT_SIZE samples at a time,      *)
(* hands every frame to AudioProcessor::process (window, FFT, bucketing,   *)
(* loudness normalisation, temporal smoothing) and emits the smoothed      *)
(* bars to the window.                                                     *)
(*                                                                         *)
(* Numbers.  f32 values are modelled as exact rationals <<n, d>> (d > 0,   *)
(* in lowest terms).  The transcendental functions are modelled to integer *)
(* precision: powf by an integer root, log10 by its floor.  The FFT itself *)
(* is not computed: the magnitude spectrum of a frame is drawn from a set  *)
(* of non-negative spectra (silence, flat, single tone).                   *)
(*                                                                         *)
(* Samples.  A sample is identified by its position in the order of        *)
(* appends to the sample buffer (the k-th sample appended is k), so that   *)
(* loss, duplication and reordering after the append are visible.          *)
(***************************************************************************)
EXTENDS Integers, Sequences, FiniteSets, TLC

VARIABLES
    cfg,            \* the build's configuration constants (lib.rs:6-9)
    phase,          \* start_audio_listener: "init", "running" or "stopped"
    start_result,   \* what start_audio_listener returned to its caller
    sample_rate,    \* config.sample_rate() of the capture session
    lock,           \* holder of each Mutex (0 = unlocked)
    sample_buffer,  \* Vec<f32> behind the sample_buffer mutex
    processor,      \* AudioProcessor behind the processor mutex
    pc,             \* per callback context: position in process_fn
    data,           \* per callback context: length of the chunk passed in
    chunk,          \* per callback context: the frame drained from the buffer
    bars,           \* per callback context: the vector process returned
    raw_bars,       \* the local `bars` (raw intensities) of the last process call
    bin_ranges,     \* the (low_bin, high_bin) of each bar in the last process call
    ingested,       \* history: every sample appended to the buffer, in order
    extracted,      \* history: every frame drained from the buffer, in order
    processed,      \* history: every frame handed to AudioProcessor::process
    returned,       \* history: every vector AudioProcessor::process returned
    emit_log,       \* history: every window.emit attempt (bars, outcome)
    chunk_kinds,    \* history: kinds of chunk lengths seen by process_fn
    calls           \* history: number of process_fn invocations so far

vars == <<cfg, phase, start_result, sample_rate, lock, sample_buffer, processor,
          pc, data, chunk, bars, raw_bars, bin_ranges, ingested, extracted,
          processed, returned, emit_log, chunk_kinds, calls>>

(***************************************************************************)
(* Bounds of the model                                                     *)
(***************************************************************************)
\* Frame length; 2048 in the source (lib.rs:6), scaled down.
FFT_SIZE == 4
\* Number of bars; 64 in the source (lib.rs:7), scaled down.
NUM_BARS == 2
\* Number of execution contexts that may invoke process_fn.
NumThreads == 2
\* Total number of samples the capture source delivers.
MaxSamples == 9
\* Number of process_fn invocations by the capture source.
MaxCalls == 3
\* Number of frames fed to AudioProcessor::process in SpecProcess.
MaxFrames == 4

(***************************************************************************)
(* Program constants                                                       *)
(***************************************************************************)
MIN_FREQ == 20
MAX_FREQ == 20000
\* SMOOTHING_RISE = 0.5, SMOOTHING_FALL = 0.85, SENSITIVITY = 1.5, in percent.
SMOOTHING_RISE_PCT == 50
SMOOTHING_FALL_PCT == 85
SENSITIVITY_PCT == 150

Threads == 1..NumThreads
SampleRates == {100, 48000}

(***************************************************************************)
(* Exact rational arithmetic standing in for f32                           *)
(***************************************************************************)
Abs(x) == IF x < 0 THEN -x ELSE x
Min(a, b) == IF a < b THEN a ELSE b
Max(a, b) == IF a > b THEN a ELSE b

RECURSIVE GCD(_, _)
GCD(a, b) == IF b = 0 THEN a ELSE GCD(b, a % b)

R(n, d) == LET g == GCD(Abs(n), d) IN <<n \div g, d \div g>>
RInt(n) == <<n, 1>>
RAdd(a, b) ==
    LET l == (a[2] \div GCD(a[2], b[2])) * b[2]
    IN  R(a[1] * (l \div a[2]) + b[1] * (l \div b[2]), l)
RNeg(a) == <<-a[1], a[2]>>
RSub(a, b) == RAdd(a, RNeg(b))
RMul(a, b) ==
    LET g1 == GCD(Abs(a[1]), b[2])
        g2 == GCD(Abs(b[1]), a[2])
        h1 == IF g1 = 0 THEN 1 ELSE g1
        h2 == IF g2 = 0 THEN 1 ELSE g2
    IN  R((a[1] \div h1) * (b[1] \div h2), (a[2] \div h2) * (b[2] \div h1))
RDivInt(a, k) == R(a[1], a[2] * k)
RLeq(a, b) == RSub(b, a)[1] >= 0
RLess(a, b) == RSub(b, a)[1] > 0
RMin(a, b) == IF RLess(b, a) THEN b ELSE a
RMax(a, b) == IF RLess(a, b) THEN b ELSE a
RClamp(x, lo, hi) == RMin(RMax(x, lo), hi)

RECURSIVE Pow(_, _)
Pow(b, e) == IF e = 0 THEN 1 ELSE b * Pow(b, e - 1)

\* floor(r^(i/n)) for integers r >= 1, 0 <= i <= n, n >= 1: powf to integer precision.
IRootPow(r, i, n) ==
    CHOOSE x \in 1..Max(r, 1) : Pow(x, n) <= Pow(r, i) /\ Pow(x + 1, n) > Pow(r, i)

\* floor(sqrt(k)), searched in 0..m.
ISqrt(k, m) == CHOOSE x \in 0..m : x * x <= k /\ (x + 1) * (x + 1) > k

(***************************************************************************)
(* Configuration                                                           *)
(***************************************************************************)
\* The constants of lib.rs:6-9 as built (frame length and bar count scaled).
SourceConfig ==
    [frame_length |-> FFT_SIZE, bar_count |-> NUM_BARS,
     min_freq |-> MIN_FREQ, max_freq |-> MAX_FREQ]

SpectrumLen(c) == c.frame_length \div 2

(***************************************************************************)
(* get_bar_frequencies and AudioProcessor::new                             *)
(***************************************************************************)
\* MIN_FREQ * (MAX_FREQ / MIN_FREQ).powf(i / num_bars)
BandEdge(c, i) ==
    c.min_freq * IRootPow(c.max_freq \div c.min_freq, i, c.bar_count)

get_bar_frequencies(c) ==
    [i \in 1..c.bar_count |-> <<BandEdge(c, i - 1), BandEdge(c, i)>>]

AudioProcessor_new(c) ==
    [prev_bars |-> [i \in 1..c.bar_count |-> RInt(0)],
     bar_frequencies |-> get_bar_frequencies(c)]

(***************************************************************************)
(* AudioProcessor::process                                                 *)
(***************************************************************************)
\* Magnitude spectra a frame may have: every entry is c.norm() * 2 / FFT_SIZE,
\* a non-negative number.  Silence, a flat spectrum, or a single tone.
Levels == {RInt(0), R(1, 100), RInt(10)}
Spectra(c) ==
    LET bins == 0..(SpectrumLen(c) - 1)
    IN  {[b \in bins |-> l] : l \in Levels}
        \cup {[b \in bins |-> IF b = p THEN l ELSE RInt(0)] :
                 p \in bins, l \in Levels \ {RInt(0)}}

\* (low_freq / freq_resolution).floor() as usize, freq_resolution = sample_rate / FFT_SIZE
LowBinRaw(c, sr, low_freq) == (low_freq * c.frame_length) \div sr
\* (high_freq / freq_resolution).ceil() as usize
HighBinRaw(c, sr, high_freq) == (high_freq * c.frame_length + sr - 1) \div sr

\* high_bin.min(magnitude.len()), without the max(low_bin + 1).
HighBinClampNoMax(high_bin, low_bin, len) == Min(high_bin, len)

\* low_bin.max(1).min(magnitude.len() - 1)
LowBinClamp(low_bin, len) == Min(Max(low_bin, 1), len - 1)
\* high_bin.max(low_bin + 1).min(magnitude.len())
HighBinClamp(high_bin, low_bin, len) == Min(Max(high_bin, low_bin + 1), len)

BinRange(c, sr, freqs) ==
    LET len == SpectrumLen(c)
        low_bin == LowBinClamp(LowBinRaw(c, sr, freqs[1]), len)
        high_bin == HighBinClamp(HighBinRaw(c, sr, freqs[2]), low_bin, len)
    IN  <<low_bin, high_bin>>

\* for bin in low_bin..high_bin { sum += magnitude[bin] }
RECURSIVE SumBins(_, _, _)
SumBins(magnitude, low_bin, high_bin) ==
    IF low_bin >= high_bin THEN RInt(0)
    ELSE RAdd(magnitude[low_bin], SumBins(magnitude, low_bin + 1, high_bin))

\* 20.0 * (avg.max(1e-10)).log10(), log10 taken to integer precision (floor).
\* Every avg below 1e-3 gives at most -80 dB, which normalises to 0 exactly as
\* the floor 1e-10 (-200 dB) does.
Decibels(avg) ==
    IF RLeq(RInt(10), avg) THEN RInt(20)
    ELSE IF RLeq(RInt(1), avg) THEN RInt(0)
    ELSE IF RLeq(R(1, 10), avg) THEN RInt(-20)
    ELSE IF RLeq(R(1, 100), avg) THEN RInt(-40)
    ELSE IF RLeq(R(1, 1000), avg) THEN RInt(-60)
    ELSE RInt(-200)

\* ((db + 60.0) / 60.0).clamp(0.0, 1.0)
Normalized(db) == RClamp(RDivInt(RAdd(db, RInt(60)), 60), RInt(0), RInt(1))

\* 1.0 + (bar_idx / NUM_BARS).powf(1.5) * 3.0, powf to one decimal digit:
\* (i/B)^1.5 = sqrt(i^3 * B) / B^2.
FreqBoost(c, bar_idx) ==
    LET B == c.bar_count
        root == ISqrt(100 * bar_idx * bar_idx * bar_idx * B, 10 * B * B)
    IN  RAdd(RInt(1), R(3 * root, 10 * B * B))

\* normalized * SENSITIVITY * freq_boost, without the ceiling.
IntensityUncapped(normalized, freq_boost) ==
    RMul(RMul(normalized, R(SENSITIVITY_PCT, 100)), freq_boost)

\* (normalized * SENSITIVITY * freq_boost).min(1.5)
Intensity(normalized, freq_boost) ==
    RMin(RMul(RMul(normalized, R(SENSITIVITY_PCT, 100)), freq_boost), R(3, 2))

\* The raw intensity of bar bar_idx (0-based) over the bin range rng.
RawBar(c, magnitude, bar_idx, rng) ==
    LET count == IF rng[2] > rng[1] THEN rng[2] - rng[1] ELSE 0
    IN  IF count > 0
        THEN LET avg == RDivInt(SumBins(magnitude, rng[1], rng[2]), count)
             IN  Intensity(Normalized(Decibels(avg)), FreqBoost(c, bar_idx))
        ELSE RInt(0)

\* The release branch multiplies by SMOOTHING_FALL instead of 1 - SMOOTHING_FALL.
SmoothFallRate(prev, target) ==
    IF RLess(prev, target)
    THEN RAdd(prev, RMul(RSub(target, prev), R(SMOOTHING_RISE_PCT, 100)))
    ELSE RAdd(prev, RMul(RSub(target, prev), R(SMOOTHING_FALL_PCT, 100)))

\* The smoothing step of one bar (lib.rs:103-110).
Smooth(prev, target) ==
    IF RLess(prev, target)
    THEN RAdd(prev, RMul(RSub(target, prev), R(SMOOTHING_RISE_PCT, 100)))
    ELSE RAdd(prev, RMul(RSub(target, prev),
                         RSub(RInt(1), R(SMOOTHING_FALL_PCT, 100))))

\* AudioProcessor::process on a frame whose spectrum is `magnitude`:
\* the new processor, the vector returned, the raw intensities and bin ranges.
process(proc, c, sr, magnitude) ==
    LET B == c.bar_count
        rngs == [i \in 1..B |-> BinRange(c, sr, proc.bar_frequencies[i])]
        raw == [i \in 1..B |-> RawBar(c, magnitude, i - 1, rngs[i])]
        new == [i \in 1..B |-> Smooth(proc.prev_bars[i], raw[i])]
    IN  [processor |-> [proc EXCEPT !.prev_bars = new],
         ret |-> new, raw |-> raw, bins |-> rngs]

(***************************************************************************)
(* start_audio_listener                                                    *)
(***************************************************************************)
Mutexes == {"sample_buffer", "processor", "planner"}

NoProcessor == [prev_bars |-> <<>>, bar_frequencies |-> <<>>]

InitWith(c) ==
    /\ cfg = c
    /\ phase = "init"
    /\ start_result = "none"
    /\ sample_rate = 0
    /\ lock = [m \in Mutexes |-> 0]
    /\ sample_buffer = <<>>
    /\ processor = NoProcessor
    /\ pc = [t \in Threads |-> "idle"]
    /\ data = [t \in Threads |-> 0]
    /\ chunk = [t \in Threads |-> <<>>]
    /\ bars = [t \in Threads |-> <<>>]
    /\ raw_bars = <<>>
    /\ bin_ranges = <<>>
    /\ ingested = <<>>
    /\ extracted = <<>>
    /\ processed = <<>>
    /\ returned = <<>>
    /\ emit_log = <<>>
    /\ chunk_kinds = {}
    /\ calls = 0

Init == InitWith(SourceConfig)

\* What start_audio_listener hands back to its caller (lib.rs:188).
StartResult(c) == "Ok"

\* The spawned thread: no input device or no input config (lib.rs:122-130),
\* an unsupported sample format or a stream that fails to build
\* (lib.rs:161-180), or a playing stream.  The command returns
\* Ok("started") in every case.
StartAudioListener ==
    /\ phase = "init"
    /\ start_result' = StartResult(cfg)
    /\ \/ /\ phase' = "stopped"
          /\ UNCHANGED <<sample_rate, processor>>
       \/ \E sr \in SampleRates :
            /\ sample_rate' = sr
            /\ processor' = AudioProcessor_new(cfg)
            /\ phase' \in {"stopped", "running"}
    /\ UNCHANGED <<cfg, lock, sample_buffer, pc, data, chunk, bars, raw_bars,
                   bin_ranges, ingested, extracted, processed, returned,
                   emit_log, chunk_kinds, calls>>

(***************************************************************************)
(* process_fn, the capture callback (lib.rs:145-158)                       *)
(***************************************************************************)
\* Samples handed to callbacks that have not appended them yet.
RECURSIVE SumData(_)
SumData(S) ==
    IF S = {} THEN 0
    ELSE LET t == CHOOSE u \in S : TRUE IN data[t] + SumData(S \ {t})
Pending == SumData({t \in Threads : pc[t] \in {"lock_buffer", "extend"}})

\* Chunk lengths the capture source delivers: empty, a single sample, one short
\* of a frame, one more than a frame, two frames at once.
ChunkLens(c) ==
    {0, 1, c.frame_length - 1, c.frame_length + 1, 2 * c.frame_length}

ChunkKind(n) ==
    IF n = 0 THEN "empty"
    ELSE IF n < cfg.frame_length THEN "short"
    ELSE IF n = cfg.frame_length THEN "exact"
    ELSE "long"

\* A lock that excludes nobody.
CanLockNone(m) == TRUE

\* Mutex::lock blocks while the mutex is held (by anyone, the caller included).
CanLock(m) == lock[m] = 0

\* buf.extend_from_slice(data)
ExtendFromSlice(buf, new) == buf \o new

\* while buf.len() > FFT_SIZE
LoopContinuesStrict(buf, n) == Len(buf) > n

\* while buf.len() >= FFT_SIZE
LoopContinues(buf, n) == Len(buf) >= n

\* The frame is taken and the buffer cleared.
DrainRestClear(buf, n) == <<>>

\* buf.drain(0..FFT_SIZE).collect(): the frame taken, and what stays in buf.
DrainFrame(buf, n) == SubSeq(buf, 1, n)
DrainRest(buf, n) == SubSeq(buf, n + 1, Len(buf))

\* A failed emit is tried again.
AfterEmitRetry(ok) == IF ok THEN "end_iter" ELSE "emit"

\* Where process_fn goes after window.emit returned: the result is discarded.
AfterEmit(ok) == "end_iter"

\* Only plan goes out of scope at the end of an iteration.
ReleaseIterationKeepProcessor(lk) == [lk EXCEPT !["planner"] = 0]

\* End of a loop iteration: plan and proc go out of scope.
ReleaseIteration(lk) == [lk EXCEPT !["planner"] = 0, !["processor"] = 0]

\* The capture source calls process_fn with a chunk of n samples.
Invoke(t, n) ==
    /\ phase = "running"
    /\ pc[t] = "idle"
    /\ calls < MaxCalls
    /\ Len(ingested) + Pending + n <= MaxSamples
    /\ pc' = [pc EXCEPT ![t] = "lock_buffer"]
    /\ data' = [data EXCEPT ![t] = n]
    /\ chunk_kinds' = chunk_kinds \cup {ChunkKind(n)}
    /\ calls' = calls + 1
    /\ UNCHANGED <<cfg, phase, start_result, sample_rate, lock, sample_buffer,
                   processor, chunk, bars, raw_bars, bin_ranges, ingested,
                   extracted, processed, returned, emit_log>>

\* let mut buf = buffer.lock().unwrap();
LockBuffer(t) ==
    /\ pc[t] = "lock_buffer"
    /\ CanLock("sample_buffer")
    /\ lock' = [lock EXCEPT !["sample_buffer"] = t]
    /\ pc' = [pc EXCEPT ![t] = "extend"]
    /\ UNCHANGED <<cfg, phase, start_result, sample_rate, sample_buffer,
                   processor, data, chunk, bars, raw_bars, bin_ranges, ingested,
                   extracted, processed, returned, emit_log, chunk_kinds, calls>>

\* buf.extend_from_slice(data);
Extend(t) ==
    /\ pc[t] = "extend"
    /\ LET new == [i \in 1..data[t] |-> Len(ingested) + i]
       IN  /\ sample_buffer' = ExtendFromSlice(sample_buffer, new)
           /\ ingested' = ingested \o new
    /\ pc' = [pc EXCEPT ![t] = "loop"]
    /\ UNCHANGED <<cfg, phase, start_result, sample_rate, lock, processor, data,
                   chunk, bars, raw_bars, bin_ranges, extracted, processed,
                   returned, emit_log, chunk_kinds, calls>>

\* while buf.len() >= FFT_SIZE { let chunk = buf.drain(0..FFT_SIZE).collect();
Drain(t) ==
    /\ pc[t] = "loop"
    /\ LoopContinues(sample_buffer, cfg.frame_length)
    /\ chunk' = [chunk EXCEPT ![t] = DrainFrame(sample_buffer, cfg.frame_length)]
    /\ sample_buffer' = DrainRest(sample_buffer, cfg.frame_length)
    /\ extracted' = Append(extracted, chunk'[t])
    /\ pc' = [pc EXCEPT ![t] = "lock_processor"]
    /\ UNCHANGED <<cfg, phase, start_result, sample_rate, lock, processor, data,
                   bars, raw_bars, bin_ranges, ingested, processed, returned,
                   emit_log, chunk_kinds, calls>>

\* The loop ends and process_fn returns: buf goes out of scope.
Return(t) ==
    /\ pc[t] = "loop"
    /\ ~LoopContinues(sample_buffer, cfg.frame_length)
    /\ lock' = [lock EXCEPT !["sample_buffer"] = 0]
    /\ data' = [data EXCEPT ![t] = 0]
    /\ pc' = [pc EXCEPT ![t] = "idle"]
    /\ UNCHANGED <<cfg, phase, start_result, sample_rate, sample_buffer,
                   processor, chunk, bars, raw_bars, bin_ranges, ingested,
                   extracted, processed, returned, emit_log, chunk_kinds, calls>>

\* let mut proc = processor.lock().unwrap();
LockProcessor(t) ==
    /\ pc[t] = "lock_processor"
    /\ CanLock("processor")
    /\ lock' = [lock EXCEPT !["processor"] = t]
    /\ pc' = [pc EXCEPT ![t] = "lock_planner"]
    /\ UNCHANGED <<cfg, phase, start_result, sample_rate, sample_buffer,
                   processor, data, chunk, bars, raw_bars, bin_ranges, ingested,
                   extracted, processed, returned, emit_log, chunk_kinds, calls>>

\* let mut plan = planner.lock().unwrap();
LockPlanner(t) ==
    /\ pc[t] = "lock_planner"
    /\ CanLock("planner")
    /\ lock' = [lock EXCEPT !["planner"] = t]
    /\ pc' = [pc EXCEPT ![t] = "process"]
    /\ UNCHANGED <<cfg, phase, start_result, sample_rate, sample_buffer,
                   processor, data, chunk, bars, raw_bars, bin_ranges, ingested,
                   extracted, processed, returned, emit_log, chunk_kinds, calls>>

\* let bars = proc.process(&chunk, sample_rate, &mut plan);
Process(t) ==
    /\ pc[t] = "process"
    /\ \E magnitude \in Spectra(cfg) :
         \E res \in {process(processor, cfg, sample_rate, magnitude)} :
             /\ processor' = res.processor
             /\ bars' = [bars EXCEPT ![t] = res.ret]
             /\ raw_bars' = res.raw
             /\ bin_ranges' = res.bins
             /\ returned' = Append(returned, res.ret)
    /\ processed' = Append(processed, chunk[t])
    /\ pc' = [pc EXCEPT ![t] = "emit"]
    /\ UNCHANGED <<cfg, phase, start_result, sample_rate, lock, sample_buffer,
                   data, chunk, ingested, extracted, emit_log, chunk_kinds, calls>>

\* let _ = window.emit("audio-data", bars);   (the call may fail)
Emit(t) ==
    /\ pc[t] = "emit"
    /\ \E ok \in BOOLEAN :
         /\ emit_log' = Append(emit_log, [bars |-> bars[t], ok |-> ok])
         /\ pc' = [pc EXCEPT ![t] = AfterEmit(ok)]
    /\ UNCHANGED <<cfg, phase, start_result, sample_rate, lock, sample_buffer,
                   processor, data, chunk, bars, raw_bars, bin_ranges, ingested,
                   extracted, processed, returned, chunk_kinds, calls>>

\* } end of the loop body: bars, plan, proc and chunk are dropped.
EndIteration(t) ==
    /\ pc[t] = "end_iter"
    /\ lock' = ReleaseIteration(lock)
    /\ chunk' = [chunk EXCEPT ![t] = <<>>]
    /\ bars' = [bars EXCEPT ![t] = <<>>]
    /\ pc' = [pc EXCEPT ![t] = "loop"]
    /\ UNCHANGED <<cfg, phase, start_result, sample_rate, sample_buffer,
                   processor, data, raw_bars, bin_ranges, ingested, extracted,
                   processed, returned, emit_log, chunk_kinds, calls>>

\* The steps of one process_fn call once the capture source has made it.
StepButProcess(t) ==
    \/ LockBuffer(t)
    \/ Extend(t)
    \/ Drain(t)
    \/ Return(t)
    \/ LockProcessor(t)
    \/ LockPlanner(t)
    \/ Emit(t)
    \/ EndIteration(t)

Step(t) == StepButProcess(t) \/ Process(t)

Next ==
    \/ StartAudioListener
    \/ \E t \in Threads : \E n \in ChunkLens(cfg) : Invoke(t, n)
    \/ \E t \in Threads : Step(t)

Spec == Init /\ [][Next]_vars

\* Every context that is inside process_fn keeps being scheduled, and every
\* call of window.emit and of AudioProcessor::process returns.  Process(t) is
\* enabled exactly when pc[t] = "process" and is the only step that leaves
\* that position, so WF_vars(Process(t)) is stated as []<>(pc[t] # "process").
FairSpec ==
    /\ Spec
    /\ \A t \in Threads : WF_vars(StepButProcess(t)) /\ []<>(pc[t] # "process")

(***************************************************************************)
(* AudioProcessor::process and the emission driven frame by frame, by one  *)
(* context, over frame lengths, sample rates and spectra (lib.rs:154-156). *)
(* The outcome of window.emit is discarded by the code; it is recorded as  *)
(* delivered here.                                                         *)
(***************************************************************************)
ProcessFrameLengths == {FFT_SIZE, 2 * FFT_SIZE}
ProcessSampleRates == {1, 100, 8000, 48000}

InitProcess ==
    /\ cfg \in {[SourceConfig EXCEPT !.frame_length = n] : n \in ProcessFrameLengths}
    /\ phase = "running"
    /\ start_result = StartResult(cfg)
    /\ sample_rate \in ProcessSampleRates
    /\ lock = [m \in Mutexes |-> 0]
    /\ sample_buffer = <<>>
    /\ processor = AudioProcessor_new(cfg)
    /\ pc = [t \in Threads |-> "idle"]
    /\ data = [t \in Threads |-> 0]
    /\ chunk = [t \in Threads |-> <<>>]
    /\ bars = [t \in Threads |-> <<>>]
    /\ raw_bars = <<>>
    /\ bin_ranges = <<>>
    /\ ingested = <<>>
    /\ extracted = <<>>
    /\ processed = <<>>
    /\ returned = <<>>
    /\ emit_log = <<>>
    /\ chunk_kinds = {}
    /\ calls = 0

ProcessFrame ==
    /\ Len(returned) < MaxFrames
    /\ \E magnitude \in Spectra(cfg) :
         \E res \in {process(processor, cfg, sample_rate, magnitude)} :
             /\ processor' = res.processor
             /\ raw_bars' = res.raw
             /\ bin_ranges' = res.bins
             /\ returned' = Append(returned, res.ret)
             /\ emit_log' = Append(emit_log, [bars |-> res.ret, ok |-> TRUE])
    /\ UNCHANGED <<cfg, phase, start_result, sample_rate, lock, sample_buffer,
                   pc, data, chunk, bars, ingested, extracted, processed,
                   chunk_kinds, calls>>

NextProcess == ProcessFrame

SpecProcess == InitProcess /\ [][NextProcess]_vars

(***************************************************************************)
(* The program built with other values of the constants of lib.rs:6-9.     *)
(***************************************************************************)
RECURSIVE IsPowerOfTwo(_)
IsPowerOfTwo(n) ==
    IF n <= 0 THEN FALSE
    ELSE IF n = 1 THEN TRUE
    ELSE n % 2 = 0 /\ IsPowerOfTwo(n \div 2)

ValidConfig(c) ==
    /\ c.min_freq < c.max_freq
    /\ c.bar_count > 0
    /\ IsPowerOfTwo(c.frame_length)

ConfigSpace ==
    {SourceConfig,
     [SourceConfig EXCEPT !.bar_count = 0],
     [SourceConfig EXCEPT !.max_freq = MIN_FREQ],
     [SourceConfig EXCEPT !.frame_length = FFT_SIZE + 2]}

InitConfig == \E c \in ConfigSpace : InitWith(c)

SpecConfig == InitConfig /\ [][Next]_vars

(***************************************************************************)
(* Properties                                                              *)
(***************************************************************************)
FrameLen == cfg.frame_length
Held(t) == {m \in Mutexes : lock[m] = t}
AllIdle == \A t \in Threads : pc[t] = "idle"
\* No call is between taking the buffer lock and returning.
NoCallInside == \A t \in Threads : pc[t] \in {"idle", "lock_buffer"}

\* s cut into consecutive slices of n, the incomplete tail left out.
Slices(s, n) == [k \in 1..(Len(s) \div n) |-> SubSeq(s, (k - 1) * n + 1, k * n)]
IsPrefix(p, s) == Len(p) <= Len(s) /\ p = SubSeq(s, 1, Len(p))

\* C1: while window.emit is being called, the calling context holds none of
\* the three mutexes.
EmitHoldsNoLock == \A t \in Threads : pc[t] = "emit" => Held(t) = {}

\* C2: once the calls so far have returned and the samples appended add up to
\* a multiple of the frame length, the frames handed to process are exactly
\* the concatenation of the chunks cut into frame-length slices, in order,
\* however the chunks were split.
ChunkSplitIndependence ==
    (NoCallInside /\ Len(ingested) % FrameLen = 0)
        => processed = Slices(ingested, FrameLen)

\* C2 witness: two full frames were processed from an empty, a short and a
\* long chunk.
ChunkSplitWitness ==
    /\ AllIdle
    /\ {"empty", "short", "long"} \subseteq chunk_kinds
    /\ Len(ingested) = 2 * FrameLen
    /\ Len(processed) = 2

\* C3: at most one frame is inside process, at most one call is between
\* locking the buffer and returning, and the k-th frame extracted is the k-th
\* slice of the samples, the k-th processed and the k-th emitted.
StrictFrameOrder ==
    /\ Cardinality({t \in Threads : pc[t] = "process"}) <= 1
    /\ Cardinality({t \in Threads : pc[t] \notin {"idle", "lock_buffer"}}) <= 1
    /\ IsPrefix(extracted, Slices(ingested, FrameLen))
    /\ IsPrefix(processed, extracted)
    /\ Len(extracted) <= Len(processed) + 1
    /\ Len(returned) = Len(processed)
    /\ Len(emit_log) <= Len(returned)
    /\ Len(returned) <= Len(emit_log) + 1
    /\ \A k \in 1..Len(emit_log) : emit_log[k].bars = returned[k]
    /\ (returned # <<>> => processor.prev_bars = returned[Len(returned)])

\* C3 witness: a call emits its second frame while another call, made in the
\* meantime, waits for the buffer.
StrictFrameOrderWitness ==
    \E t, u \in Threads :
        /\ pc[t] = "emit"
        /\ pc[u] = "lock_buffer"
        /\ data[u] > 0
        /\ Len(processed) = 2

\* C4: whenever no process_fn call is in progress the buffer is shorter than a
\* frame and holds (samples ingested) mod (frame length) samples.
ResidualTailBound ==
    AllIdle => /\ Len(sample_buffer) < FrameLen
               /\ Len(sample_buffer) = Len(ingested) % FrameLen

\* C4 witness: all calls returned, more than a frame was ingested, a tail stays.
ResidualTailWitness ==
    /\ AllIdle
    /\ Len(ingested) > FrameLen
    /\ sample_buffer # <<>>

EmitAttemptsCount ==
    /\ Len(emit_log) = Len(processed) - Cardinality({t \in Threads : pc[t] = "emit"})
    /\ AllIdle => Len(emit_log) = Len(ingested) \div FrameLen
EmitStepIsolated ==
    \A t \in Threads :
        (pc[t] = "emit" /\ pc'[t] # "emit")
            => /\ pc'[t] = "end_iter"
               /\ Len(emit_log') = Len(emit_log) + 1
               /\ UNCHANGED <<sample_buffer, processor, lock, chunk, bars,
                              extracted, processed, returned>>
OneEmitPerFrame == [](EmitAttemptsCount) /\ [][EmitStepIsolated]_vars

\* C6 witness: the first emit failed, a later frame was processed and emitted.
OneEmitPerFrameWitness ==
    /\ AllIdle
    /\ Len(emit_log) = 2
    /\ ~emit_log[1].ok
    /\ emit_log[2].ok
    /\ returned[2] # returned[1]

\* C7: in every process call each bar moves from its previous value towards
\* the raw target, by 1/2 of the gap when the target is above and by 3/20 of
\* it otherwise, and ends between the two (inclusive); with target 0 it
\* stays within [0, previous].
Between(x, a, b) == RLeq(RMin(a, b), x) /\ RLeq(x, RMax(a, b))
SmootherStep(prev, target, new) ==
    /\ RLess(prev, target) => RSub(new, prev) = RMul(RSub(target, prev), R(1, 2))
    /\ ~RLess(prev, target) => RSub(new, prev) = RMul(RSub(target, prev), R(3, 20))
    /\ Between(new, prev, target)
    /\ target = RInt(0) => (RLeq(RInt(0), new) /\ RLeq(new, prev))
SmootherNeverOvershoots ==
    [][Len(returned') = Len(returned) + 1
         => \A i \in 1..cfg.bar_count :
                SmootherStep(processor.prev_bars[i], raw_bars'[i],
                             processor'.prev_bars[i])]_vars

\* C7 witness: in the last frame one bar rose towards its target and another
\* decayed from a nonzero value towards 0, without reaching either.
SmootherWitness ==
    /\ Len(returned) >= 2
    /\ LET before == returned[Len(returned) - 1]
           after == returned[Len(returned)]
       IN  \E i, j \in 1..cfg.bar_count :
             /\ RLess(before[i], after[i]) /\ RLess(after[i], raw_bars[i])
             /\ raw_bars[j] = RInt(0)
             /\ RLess(RInt(0), after[j]) /\ RLess(after[j], before[j])

\* C8: prev_bars starts as bar-count zeros, and every raw intensity, every
\* vector process returns and every vector emitted has bar-count entries,
\* each in [0, 3/2].
InUnitAndHalf(x) == RLeq(RInt(0), x) /\ RLeq(x, R(3, 2))
WellFormedBars(v) ==
    /\ DOMAIN v = 1..cfg.bar_count
    /\ \A i \in 1..cfg.bar_count : InUnitAndHalf(v[i])
BarsWellFormed ==
    /\ WellFormedBars(processor.prev_bars)
    /\ returned = <<>> => \A i \in 1..cfg.bar_count : processor.prev_bars[i] = RInt(0)
    /\ raw_bars # <<>> => WellFormedBars(raw_bars)
    /\ \A k \in 1..Len(returned) : WellFormedBars(returned[k])
    /\ \A k \in 1..Len(emit_log) : WellFormedBars(emit_log[k].bars)

\* C8 witness: a raw intensity hit the ceiling 3/2 and the emitted bar has
\* climbed above 1.
BarsWellFormedWitness ==
    /\ emit_log # <<>>
    /\ \E i \in 1..cfg.bar_count :
         /\ raw_bars[i] = R(3, 2)
         /\ RLess(RInt(1), emit_log[Len(emit_log)].bars[i])

\* C9: every bar's clamped bin range satisfies 1 <= low_bin < high_bin <=
\* frame length / 2, so the bins read lie in [1, frame length / 2).
BinRangeInRange ==
    \A i \in DOMAIN bin_ranges :
        /\ 1 <= bin_ranges[i][1]
        /\ bin_ranges[i][1] < bin_ranges[i][2]
        /\ bin_ranges[i][2] <= SpectrumLen(cfg)

\* C9 witness: a frame was processed at a rate where one bar's band lies
\* entirely above Nyquist and two bars read the same bins.
BinRangeWitness ==
    /\ bin_ranges # <<>>
    /\ \E i \in DOMAIN bin_ranges :
         2 * processor.bar_frequencies[i][1] > sample_rate
    /\ \E i, j \in DOMAIN bin_ranges : i # j /\ bin_ranges[i] = bin_ranges[j]

\* C10: every process_fn invocation eventually returns (so no set of
\* invocations is ever stuck waiting on each other).
CallbacksReturn == \A t \in Threads : (pc[t] # "idle") ~> (pc[t] = "idle")

\* C10 witness: one call holds all three mutexes inside its second frame
\* while another call waits for the buffer.
CallbacksReturnWitness ==
    \E t, u \in Threads :
        /\ Held(t) = Mutexes
        /\ pc[u] = "lock_buffer"
        /\ Len(extracted) = 2

====
